---- MODULE Spec2Model ----
(***************************************************************************)
(* STEM Racing Regulations Learning API (src/main.py, src/database.py,     *)
(* src/schemas.py): the document store, the request handlers and the text  *)
(* heuristics.                                                             *)
(*                                                                         *)
(* A Python str is a sequence of one-character strings.  A stored _id is   *)
(* a BSON value [bsontype, val]; str(ObjectId) and the path parameter of a *)
(* request are BSON strings, never ObjectIds.                              *)
(***************************************************************************)
EXTENDS Integers, Sequences, FiniteSets, TLC

VARIABLES
    db,                \* database.db: "None" or "Database" (src/database.py:18,33)
    pdf_extract_text,  \* main.pdf_extract_text: the pdfminer import worked (src/main.py:12-15)
    regulationdoc,     \* collection "regulationdoc", in insertion order
    flashcard,         \* collection "flashcard", in insertion order
    inspiration,       \* collection "inspiration", in insertion order
    next_oid,          \* the driver's ObjectId generator
    req,               \* the request handled last
    resp               \* the response it got

vars == <<db, pdf_extract_text, regulationdoc, flashcard, inspiration, next_oid, req, resp>>

store == <<regulationdoc, flashcard, inspiration>>

-----------------------------------------------------------------------------
(* Bounds of the model. *)

\* chunks per text handed to simple_explain and analyze_aero
MaxChunks == 2

\* sentences per text handed to generate_flashcards_from_text
MaxSentences == 2

-----------------------------------------------------------------------------
(* Python str operations. *)

Min(a, b) == IF a <= b THEN a ELSE b

UpperAlpha == <<"A","B","C","D","E","F","G","H","I","J","K","L","M","N","O","P","Q","R","S","T","U","V","W","X","Y","Z">>
LowerAlpha == <<"a","b","c","d","e","f","g","h","i","j","k","l","m","n","o","p","q","r","s","t","u","v","w","x","y","z">>
Digits == {"0", "1", "2", "3", "4", "5", "6", "7", "8", "9"}

\* \s of the re module and the characters str.strip() removes
IsSpace(c) == c \in {" ", "\n", "\t"}

lower_char(c) ==
    IF \E i \in 1..26 : UpperAlpha[i] = c
    THEN LowerAlpha[CHOOSE i \in 1..26 : UpperAlpha[i] = c]
    ELSE c

\* str.lower()
str_lower(t) == [i \in 1..Len(t) |-> lower_char(t[i])]

\* s[:n]
Prefix(s, n) == SubSeq(s, 1, Min(n, Len(s)))

\* kw in t
Contains(kw, t) ==
    \E i \in 1..(Len(t) - Len(kw) + 1) : \A j \in 1..Len(kw) : t[i + j - 1] = kw[j]

\* str.strip()
str_strip(t) ==
    LET keep == {i \in 1..Len(t) : ~IsSpace(t[i])}
    IN  IF keep = {} THEN <<>>
        ELSE SubSeq(t, CHOOSE i \in keep : \A j \in keep : i <= j,
                       CHOOSE i \in keep : \A j \in keep : j <= i)

RECURSIVE Concat(_)
\* "".join(parts)
Concat(parts) ==
    IF parts = <<>> THEN <<>> ELSE Head(parts) \o Concat(Tail(parts))

\* the sequences of at most n elements of S
SeqsUpTo(S, n) == UNION {[1..k -> S] : k \in 0..n}

-----------------------------------------------------------------------------
(* analyze_aero, src/main.py:147-160. *)

\* the keyword lists of the four clusters, in the order they are tested
AeroClusters == <<
    <<<<"g","r","o","u","n","d"," ","e","f","f","e","c","t">>, <<"v","e","n","t","u","r","i">>, <<"f","l","o","o","r">>>>,
    <<<<"w","i","n","g">>, <<"r","e","a","r"," ","w","i","n","g">>, <<"f","r","o","n","t"," ","w","i","n","g">>, <<"g","u","r","n","e","y">>>>,
    <<<<"d","r","a","g">>, <<"s","l","i","p","p","e","r","y">>, <<"c","d"," ">>>>,
    <<<<"d","i","f","f","u","s","e","r">>, <<"b","e","a","m"," ","w","i","n","g">>>> >>

\* the observation each cluster appends
AeroObservations == <<
    "Uses ground-effect via the floor/venturi to create strong underbody downforce.",
    "Optimized wing package; look for gurney flaps and efficient endplates to manage vortices.",
    "Low drag philosophy visible in bodywork packaging and cooling exits.",
    "Powerful diffuser/beam-wing interaction stabilizes the rear at speed." >>

AeroFallback ==
    "General balance of downforce and drag; packaging and ride height control are key."

\* any(k in lower for k in ks)
any_in(ks, lower) == \E i \in 1..Len(ks) : Contains(ks[i], lower)

\* if / elif / elif / elif: the first cluster that matches alone
analyze_aero_elif(text) ==
    LET lower == str_lower(text)
        hit   == {k \in 1..4 : any_in(AeroClusters[k], lower)}
    IN  IF hit = {} THEN <<AeroFallback>>
        ELSE <<AeroObservations[CHOOSE k \in hit : \A j \in hit : k <= j]>>

analyze_aero(text) ==
    LET lower == str_lower(text)
        h(k)  == IF any_in(AeroClusters[k], lower)
                 THEN <<AeroObservations[k]>> ELSE <<>>
        highlights == h(1) \o h(2) \o h(3) \o h(4)
    IN  IF highlights = <<>> THEN <<AeroFallback>> ELSE highlights

-----------------------------------------------------------------------------
(* simple_explain, src/main.py:54-83. *)

REG_KEYWORDS == <<
    <<"m","u","s","t">>, <<"s","h","a","l","l">>, <<"s","h","o","u","l","d">>, <<"m","a","y">>, <<"n","o","t">>, <<"m","i","n","i","m","u","m">>, <<"m","a","x","i","m","u","m">>,
    <<"t","o","l","e","r","a","n","c","e","s">>, <<"d","i","m","e","n","s","i","o","n","s">>, <<"w","e","i","g","h","t">>, <<"w","i","d","t","h">>, <<"h","e","i","g","h","t">>, <<"l","e","n","g","t","h">>,
    <<"c","l","e","a","r","a","n","c","e">>, <<"r","a","d","i","u","s">>, <<"m","a","t","e","r","i","a","l">>, <<"f","a","s","t","e","n","e","r">>, <<"s","a","f","e","t","y">>, <<"i","n","s","p","e","c","t","i","o","n">> >>

\* the list the first loop scans, in its order
ComplianceKeywords == <<
    <<"m","i","n","i","m","u","m">>, <<"m","a","x","i","m","u","m">>, <<"m","u","s","t">>, <<"s","h","a","l","l">>, <<"n","o","t">>, <<"p","r","o","h","i","b","i","t","e","d">>, <<"r","e","q","u","i","r","e","d">> >>

\* A bullet is its format string and the text put into it.
ComplianceBullet(kw) ==
    [fmt |-> "Identifies a compliance rule: contains the word '{kw}'.", arg |-> kw]
QuantBullet ==
    [fmt |-> "Specifies quantitative limits or measurements.", arg |-> <<>>]
KeyTermsBullet(present) ==
    [fmt |-> "Key terms: {', '.join(present)}", arg |-> present]
TipBullet ==
    [fmt |-> "Tip: Convert units to a single system and create a checklist to verify each constraint before scrutineering.",
     arg |-> <<>>]

RECURSIVE compliance_scan(_, _)
\* for kw in [...]: if kw in lower: bullets.append(...); break
compliance_scan(i, lower) ==
    IF i > Len(ComplianceKeywords) THEN <<>>
    ELSE IF Contains(ComplianceKeywords[i], lower)
         THEN <<ComplianceBullet(ComplianceKeywords[i])>>
         ELSE compliance_scan(i + 1, lower)

\* re.findall(r"[0-9]+(?:\.[0-9]+)?\s?(unit)?", t) is non-empty: every match
\* starts with a digit, and every digit starts or continues one
has_numbers(t) == \E i \in 1..Len(t) : t[i] \in Digits

\* the loop without its break: one bullet for every keyword present
simple_explain_nobreak(text) ==
    LET t       == str_strip(text)
        lower   == str_lower(t)
        hit     == SelectSeq(ComplianceKeywords, LAMBDA kw : Contains(kw, lower))
        rule    == [i \in 1..Len(hit) |-> ComplianceBullet(hit[i])]
        numbers == IF has_numbers(t) THEN <<QuantBullet>> ELSE <<>>
        present == Prefix(SelectSeq(REG_KEYWORDS, LAMBDA kw : Contains(kw, lower)), 6)
        terms   == IF present # <<>> THEN <<KeyTermsBullet(present)>> ELSE <<>>
    IN  [summary |-> Prefix(t, 300) \o (IF Len(t) > 300 THEN <<".",".",".">> ELSE <<>>),
         bullets |-> rule \o numbers \o terms \o <<TipBullet>>]

simple_explain(text) ==
    LET t       == str_strip(text)
        lower   == str_lower(t)
        rule    == compliance_scan(1, lower)
        numbers == IF has_numbers(t) THEN <<QuantBullet>> ELSE <<>>
        present == Prefix(SelectSeq(REG_KEYWORDS, LAMBDA kw : Contains(kw, lower)), 6)
        terms   == IF present # <<>> THEN <<KeyTermsBullet(present)>> ELSE <<>>
    IN  [summary |-> Prefix(t, 300) \o (IF Len(t) > 300 THEN <<".",".",".">> ELSE <<>>),
         bullets |-> rule \o numbers \o terms \o <<TipBullet>>]

-----------------------------------------------------------------------------
(* generate_flashcards_from_text, src/main.py:86-103. *)

SentenceEnd == {".", "!", "?"}

\* \w of the re module
IsWordChar(c) ==
    \/ c \in Digits
    \/ c = "_"
    \/ \E i \in 1..26 : c = UpperAlpha[i] \/ c = LowerAlpha[i]

\* where r"(?<=[.!?])\s+" matches: at a whitespace character that follows one
\* of . ! ? (the character before a match is never whitespace, so two matches
\* never share a run)
split_starts(text) ==
    {i \in 2..Len(text) : IsSpace(text[i]) /\ text[i - 1] \in SentenceEnd}

\* \s+ is greedy: the match that starts at i takes the whole whitespace run
run_end(text, i) ==
    CHOOSE j \in i..Len(text) :
        /\ \A k \in i..j : IsSpace(text[k])
        /\ j = Len(text) \/ ~IsSpace(text[j + 1])

\* re.split(r"(?<=[.!?])\s+", text): the pieces between the matches, the
\* empty piece after a final match included
re_split(text) ==
    LET starts  == split_starts(text)
        n       == Cardinality(starts)
        nth(k)  == CHOOSE i \in starts : Cardinality({j \in starts : j < i}) = k - 1
        from(k) == IF k = 1 THEN 1 ELSE run_end(text, nth(k - 1)) + 1
        to(k)   == IF k = n + 1 THEN Len(text) ELSE nth(k) - 1
    IN  [k \in 1..(n + 1) |-> SubSeq(text, from(k), to(k))]

\* the alternatives of r"(must|shall|should)\b", in their order
ModalWords == << <<"m","u","s","t">>, <<"s","h","a","l","l">>, <<"s","h","o","u","l","d">> >>

WhatPrefix == <<"W","h","a","t"," ">>

QuestionPrefix == <<"W","h","a","t"," ","d","o","e","s"," ","t","h","i","s"," ","r","e","g","u","l","a","t","i","o","n"," ","s","t","a","t","e","?"," ">>

\* the length of the match of r"(must|shall|should)\b" (IGNORECASE) at i, 0
\* when there is none; lower is s.lower(). The alternatives are tried in their
\* order; \b after a letter holds at the end of the string and before a
\* character that is not \w
match_len(s, lower, i) ==
    LET ok(w) == /\ i + Len(w) - 1 <= Len(s)
                 /\ \A j \in 1..Len(w) : lower[i + j - 1] = w[j]
                 /\ i + Len(w) > Len(s) \/ ~IsWordChar(s[i + Len(w)])
        alt   == {k \in 1..Len(ModalWords) : ok(ModalWords[k])}
    IN  IF alt = {} THEN 0
        ELSE Len(ModalWords[CHOOSE k \in alt : \A j \in alt : k <= j])

RECURSIVE re_sub_from(_, _, _, _)
\* re.sub(pattern, r"What \1", s, count) from position i on, `left` matches
\* still to replace (negative: no limit): the leftmost match from i on is
\* replaced, the text before it copied, and the scan goes on behind it
re_sub_from(s, lower, i, left) ==
    LET ahead == {m \in i..Len(s) : match_len(s, lower, m) > 0}
    IN  IF left = 0 \/ ahead = {} THEN SubSeq(s, i, Len(s))
        ELSE LET m == CHOOSE x \in ahead : \A y \in ahead : x <= y
                 n == match_len(s, lower, m)
             IN  SubSeq(s, i, m - 1) \o WhatPrefix \o SubSeq(s, m, m + n - 1)
                 \o re_sub_from(s, lower, m + n, left - 1)

\* re.sub(pattern, r"What \1", s, count=count, flags=re.IGNORECASE); count=0,
\* the default, replaces every match
re_sub(s, count) == re_sub_from(s, str_lower(s), 1, IF count = 0 THEN -1 ELSE count)

\* re.sub with count=1, where the code leaves count at its default
make_question_count1(s) ==
    LET q == re_sub(s, 1)
    IN  IF q = s THEN QuestionPrefix \o Prefix(s, 120) ELSE q

\* lines 96-99: q = re.sub(...); if q == s: q = "What does ...? " + s[:120]
make_question(s) ==
    LET q == re_sub(s, 0)
    IN  IF q = s THEN QuestionPrefix \o Prefix(s, 120) ELSE q

RECURSIVE cards_loop(_, _, _, _)
\* for s in sentences: if i >= n: break; cards.append(...); i += 1
cards_loop(sentences, i, n, tag) ==
    IF sentences = <<>> \/ i >= n THEN <<>>
    ELSE <<[question |-> make_question(Head(sentences)),
            answer   |-> Head(sentences),
            tag      |-> tag]>>
         \o cards_loop(Tail(sentences), i + 1, n, tag)

\* len(s) >= 20 where the code has len(s) > 20
generate_flashcards_from_text_ge(text, n, tag) ==
    cards_loop(Prefix(SelectSeq(re_split(text), LAMBDA s : Len(s) >= 20), 200), 0, n, tag)

generate_flashcards_from_text(text, n, tag) ==
    LET sentences == Prefix(SelectSeq(re_split(text), LAMBDA s : Len(s) > 20), 200)
    IN  cards_loop(sentences, 0, n, tag)

-----------------------------------------------------------------------------
(* The document store, src/database.py. *)

\* the ObjectIds one run of the model hands out
MaxInserts == 2

\* insert_one gives a document without _id a fresh ObjectId
ObjectId(n) == [bsontype |-> "objectId", val |-> n]

\* A str used as an id: val >= 1 stands for the 24 hex digits of ObjectId(val),
\* val = 0 for a string that is not 24 hex digits.
StringId(n) == [bsontype |-> "string", val |-> n]

\* str(result.inserted_id), str(d.get("_id"))
str_of_id(id) == StringId(id.val)

MalformedId == StringId(0)

\* Optional[...] values: None, or the value
None == <<>>
Some(x) == <<x>>

\* the filter {"_id": doc_id} matches a document whose _id has the same BSON
\* type and value
bson_eq(a, b) == a.bsontype = b.bsontype /\ a.val = b.val

\* db["..."].find_one({"_id": doc_id}): the first match, or None
find_one(coll, doc_id) ==
    LET hit == {i \in 1..Len(coll) : bson_eq(coll[i]._id, doc_id)}
    IN  IF hit = {} THEN None
        ELSE Some(coll[CHOOSE i \in hit : \A j \in hit : i <= j])

\* _ensure_db raises when db is None (lines 40-42)
ensure_db_raises == db = "None"

\* replace_one({}, data, upsert=True) where the code has insert_one: the new
\* document takes the place of the collection's documents
create_document_replaces(coll, data, oid, driver_ok) ==
    IF ensure_db_raises \/ ~driver_ok
    THEN [raised |-> TRUE, id |-> MalformedId, coll |-> coll]
    ELSE [raised |-> FALSE,
          id     |-> str_of_id(ObjectId(oid)),
          coll   |-> <<data @@ [_id |-> ObjectId(oid),
                                created_at |-> oid, updated_at |-> oid]>>]

\* create_document(collection_name, data), lines 45-59: data is the model's
\* dict; the insert gets ObjectId(oid), and the two timestamps read the number
\* of the insert as the time. driver_ok: insert_one does not raise.
create_document(coll, data, oid, driver_ok) ==
    IF ensure_db_raises \/ ~driver_ok
    THEN [raised |-> TRUE, id |-> MalformedId, coll |-> coll]
    ELSE [raised |-> FALSE,
          id     |-> str_of_id(ObjectId(oid)),
          coll   |-> Append(coll, data @@ [_id |-> ObjectId(oid),
                                           created_at |-> oid, updated_at |-> oid])]

\* get_documents(collection_name, filter_dict, limit), lines 62-68, for the
\* filters the handlers pass: {} or {"tag": tag}
get_documents(coll, filter_tag, limit) ==
    LET found == IF filter_tag = None THEN coll
                 ELSE SelectSeq(coll, LAMBDA d : d.tag = filter_tag)
    IN  IF limit # 0 THEN Prefix(found, limit) ELSE found

-----------------------------------------------------------------------------
(* What the requests of the model carry, and what the outside world answers. *)

\* a required field the request body leaves out
Missing == "<missing>"

Titles == {"Technical Regulations"}
Urls == {"https://example.org/regulations.pdf"}
Queries == {"Lotus 79"}
Tags == {None, Some("aero")}

RegText1 == <<"T","h","e"," ","c","a","r"," ","m","u","s","t"," ","b","e"," ","s","a","f","e","."," ","W","i","n","g","s"," ","s","h","a","l","l"," ","n","o","t"," ","f","l","e","x"," ","a","n","d"," ","m","u","s","t"," ","h","o","l","d",".">>
RegText2 == <<"B","o","d","y"," ","w","i","d","t","h"," ","i","s"," ","6","5"," ","m","m",".">>

\* what the GET of source_url and pdfminer give: a failed download, or the
\* extracted text
Served ==
    {[http_ok |-> FALSE, text |-> <<>>]}
    \cup {[http_ok |-> TRUE, text |-> t] : t \in {<<" ","\n">>, RegText1}}

\* ids of a path: malformed, issued by the store, and never issued
PathIds == {StringId(n) : n \in 0..(MaxInserts + 1)}

\* doc_id of a flashcard request
BodyIds == {None, Some(StringId(1))}

\* whether the driver call of a request raises: drawn only when the call is made
DriverOutcomes(call_made) == IF call_made THEN BOOLEAN ELSE {TRUE}

\* a value of the JSON the encyclopedia answers with
JsonAbsent == [json |-> "absent"]
JsonNull == [json |-> "null"]
JsonStr(s) == [json |-> "string", v |-> s]

WikiExtract1 == <<"A"," ","g","r","o","u","n","d"," ","e","f","f","e","c","t"," ","c","a","r"," ","w","i","t","h"," ","a"," ","r","e","a","r"," ","w","i","n","g",".">>

\* the two encyclopedia calls: the search fails, finds nothing, or finds a
\* page whose summary call fails or answers with JSON
WikiWorlds ==
    {[search |-> "error"], [search |-> "empty"],
     [search |-> "hit", page |-> "Lotus 79", summary |-> "error"]}
    \cup {[search |-> "hit", page |-> "Lotus 79", summary |-> "json",
           title |-> w[1], extract |-> w[2]] :
            w \in {<<JsonStr("Lotus 79 (car)"), JsonStr(WikiExtract1)>>,
                   <<JsonAbsent, JsonAbsent>>,
                   <<JsonNull, JsonStr(WikiExtract1)>>,
                   <<JsonStr("Lotus 79 (car)"), JsonNull>>}}

ExplainBodies == {<<>>, RegText1, RegText2}

\* count of a flashcard request: the ends of 1..20 and the values beside them
FlashCounts == {0, 1, 20, 21}

-----------------------------------------------------------------------------
(* The helpers that reach outside, src/main.py:106-144. *)

Resp(status, detail, body) == [status |-> status, detail |-> detail, body |-> body]

\* no request is being handled
NoRequest == [op |-> "idle"]
NoResponse == Resp(0, "", <<>>)

\* fetch_pdf_text(url), lines 106-118: the HTTPException of line 115 is raised
\* inside the try and comes out of line 118, still a 400
fetch_pdf_text(served) ==
    IF ~pdf_extract_text
    THEN [status |-> 500, detail |-> "PDF extraction library not available", text |-> <<>>]
    ELSE IF ~served.http_ok
    THEN [status |-> 400, detail |-> "Failed to fetch/parse PDF: HTTPError", text |-> <<>>]
    ELSE IF str_strip(served.text) = <<>>
    THEN [status |-> 400,
          detail |-> "Failed to fetch/parse PDF: 400: Could not extract text from PDF",
          text   |-> <<>>]
    ELSE [status |-> 200, detail |-> "", text |-> served.text]

NoResultsFound == <<"N","o"," ","r","e","s","u","l","t","s"," ","f","o","u","n","d",".">>
LookupFailed == <<"L","o","o","k","u","p"," ","f","a","i","l","e","d",".">>

\* the lookup without its try/except: a failed call gives no title and no
\* extract, and the handler fails on them
wiki_search_extract_uncaught(query, world) ==
    IF world.search = "empty"
    THEN [title |-> JsonStr(query), extract |-> JsonStr(NoResultsFound)]
    ELSE IF world.search = "hit" /\ world.summary = "json"
    THEN [title   |-> IF world.title = JsonAbsent THEN JsonStr(world.page) ELSE world.title,
          extract |-> IF world.extract = JsonAbsent THEN JsonStr(<<>>) ELSE world.extract]
    ELSE [title |-> JsonNull, extract |-> JsonNull]

\* the lookup without the test of line 135: indexing the empty search result
\* raises, and the except of line 143 answers "Lookup failed."
wiki_search_extract_unguarded(query, world) ==
    IF world.search = "hit" /\ world.summary = "json"
    THEN [title   |-> IF world.title = JsonAbsent THEN JsonStr(world.page) ELSE world.title,
          extract |-> IF world.extract = JsonAbsent THEN JsonStr(<<>>) ELSE world.extract]
    ELSE [title |-> JsonStr(query), extract |-> JsonStr(LookupFailed)]

\* wiki_search_extract(query), lines 121-144: dict.get gives the default for
\* a key the summary lacks, and the value as it is, null included, otherwise
wiki_search_extract(query, world) ==
    IF world.search = "error"
    THEN [title |-> JsonStr(query), extract |-> JsonStr(LookupFailed)]
    ELSE IF world.search = "empty"
    THEN [title |-> JsonStr(query), extract |-> JsonStr(NoResultsFound)]
    ELSE IF world.summary = "error"
    THEN [title |-> JsonStr(query), extract |-> JsonStr(LookupFailed)]
    ELSE [title   |-> IF world.title = JsonAbsent THEN JsonStr(world.page) ELSE world.title,
          extract |-> IF world.extract = JsonAbsent THEN JsonStr(<<>>) ELSE world.extract]

-----------------------------------------------------------------------------
(* The routes, src/main.py:164-299.  A handler that raises HTTPException     *)
(* answers with its status; a pydantic validation error of the body answers *)
(* 422; any other exception answers 500.                                    *)

IsSet(opt) == opt # None

\* `not base_text` is false: a str that is neither None nor ""
TruthyText(opt) == opt # None /\ Len(opt[1]) > 0

\* `if tag:`
TruthyTag(opt) == opt # None /\ opt[1] # ""

Unprocessable == Resp(422, "Unprocessable Entity", <<>>)
InternalError == Resp(500, "Internal Server Error", <<>>)

\* lines 164-166
read_root ==
    /\ req = NoRequest
    /\ req' = [op |-> "read_root"]
    /\ resp' = Resp(200, "", [message |-> "STEM Racing Regulations API running"])
    /\ UNCHANGED <<db, pdf_extract_text, store, next_oid>>

\* lines 168-170
hello ==
    /\ req = NoRequest
    /\ req' = [op |-> "hello"]
    /\ resp' = Resp(200, "", [message |-> "Hello from the backend API!"])
    /\ UNCHANGED <<db, pdf_extract_text, store, next_oid>>

\* the collections the database lists: those that hold a document
collection_names ==
    {n \in {"regulationdoc", "flashcard", "inspiration"} :
        \/ n = "regulationdoc" /\ regulationdoc # <<>>
        \/ n = "flashcard" /\ flashcard # <<>>
        \/ n = "inspiration" /\ inspiration # <<>>}

\* lines 172-192
test_database ==
    \E driver_ok \in DriverOutcomes(db # "None") :
        /\ req = NoRequest
        /\ req' = [op |-> "test_database", driver_ok |-> driver_ok]
        /\ resp' = Resp(200, "",
                [database          |-> IF db # "None" THEN "Connected & Working"
                                       ELSE "Not Available",
                 connection_status |-> IF db # "None" THEN "Connected"
                                       ELSE "Not Connected",
                 collections       |-> IF db # "None" /\ driver_ok
                                       THEN collection_names ELSE {}])
        /\ UNCHANGED <<db, pdf_extract_text, store, next_oid>>

\* lines 196-201
add_regulation ==
    \E title \in Titles \cup {Missing}, source_url \in Urls, served \in Served :
    \E driver_ok \in DriverOutcomes(/\ title # Missing
                                    /\ fetch_pdf_text(served).status = 200
                                    /\ ~ensure_db_raises) :
        /\ next_oid <= MaxInserts
        /\ req = NoRequest
        /\ req' = [op |-> "add_regulation", title |-> title, source_url |-> source_url,
                   served |-> served, driver_ok |-> driver_ok]
        /\ LET fetched == fetch_pdf_text(served)
               doc     == [title |-> title, source_url |-> source_url,
                           text |-> fetched.text]
               created == create_document(regulationdoc, doc, next_oid, driver_ok)
           IN  IF title = Missing
               THEN resp' = Unprocessable /\ UNCHANGED <<regulationdoc, next_oid>>
               ELSE IF fetched.status # 200
               THEN /\ resp' = Resp(fetched.status, fetched.detail, <<>>)
                    /\ UNCHANGED <<regulationdoc, next_oid>>
               ELSE IF created.raised
               THEN resp' = InternalError /\ UNCHANGED <<regulationdoc, next_oid>>
               ELSE /\ regulationdoc' = created.coll
                    /\ next_oid' = next_oid + 1
                    /\ resp' = Resp(200, "", [id |-> created.id, title |-> title])
        /\ UNCHANGED <<db, pdf_extract_text, flashcard, inspiration>>

\* d.get("text", "")[:200] + "..." if d.get("text") else ""
snippet(text) == IF text # <<>> THEN Prefix(text, 200) \o <<".",".",".">> ELSE <<>>

\* lines 203-214
list_regulations ==
    \E limit \in {0, 1, 20}, driver_ok \in DriverOutcomes(~ensure_db_raises) :
        /\ req = NoRequest
        /\ req' = [op |-> "list_regulations", limit |-> limit, driver_ok |-> driver_ok]
        /\ resp' =
            IF ensure_db_raises \/ ~driver_ok THEN InternalError
            ELSE LET docs == get_documents(regulationdoc, None, limit)
                 IN  Resp(200, "",
                          [i \in 1..Len(docs) |->
                              [id         |-> str_of_id(docs[i]._id),
                               title      |-> docs[i].title,
                               source_url |-> docs[i].source_url,
                               snippet    |-> snippet(docs[i].text)]])
        /\ UNCHANGED <<db, pdf_extract_text, store, next_oid>>

\* lines 216-232: find_one is asked for the path's string as it is; what it
\* raises (the driver failing) becomes "Invalid id"
get_regulation ==
    \E doc_id \in PathIds, driver_ok \in DriverOutcomes(db # "None") :
        /\ req = NoRequest
        /\ req' = [op |-> "get_regulation", doc_id |-> doc_id, driver_ok |-> driver_ok]
        /\ resp' =
            IF db # "None" /\ ~driver_ok THEN Resp(400, "Invalid id", <<>>)
            ELSE LET d == IF db # "None" THEN find_one(regulationdoc, doc_id) ELSE None
                 IN  IF d = None THEN Resp(404, "Document not found", <<>>)
                     ELSE Resp(200, "", [id         |-> str_of_id(d[1]._id),
                                         title      |-> d[1].title,
                                         source_url |-> d[1].source_url,
                                         text       |-> d[1].text])
        /\ UNCHANGED <<db, pdf_extract_text, store, next_oid>>

\* lines 236-238
explain_text ==
    \E text \in {None} \cup {Some(t) : t \in ExplainBodies} :
        /\ req = NoRequest
        /\ req' = [op |-> "explain_text", text |-> text]
        /\ resp' = IF text = None THEN Unprocessable
                   ELSE Resp(200, "", simple_explain(text[1]))
        /\ UNCHANGED <<db, pdf_extract_text, store, next_oid>>

RECURSIVE persist_cards(_, _, _, _, _, _)
\* lines 262-267: the cards are inserted one by one, `call` the number of the
\* driver call the next insert makes; the insert that raises ends the request
\* with the earlier cards stored
persist_cards(cards, doc_id, coll, oid, call, fail_at) ==
    IF cards = <<>> THEN [raised |-> FALSE, coll |-> coll, out |-> <<>>]
    ELSE LET c       == Head(cards)
             fc      == [doc_id |-> doc_id, question |-> c.question,
                         answer |-> c.answer, tag |-> c.tag]
             created == create_document(coll, fc, oid, call # fail_at)
         IN  IF created.raised THEN [raised |-> TRUE, coll |-> coll, out |-> <<>>]
             ELSE LET rest == persist_cards(Tail(cards), doc_id, created.coll,
                                            oid + 1, call + 1, fail_at)
                  IN  [raised |-> rest.raised,
                       coll   |-> rest.coll,
                       out    |-> <<c @@ [id |-> created.id]>> \o rest.out]

\* le=21 where the code has le=20
count_valid_le21(count) == count >= 1 /\ count <= 21

\* count: int = Field(5, ge=1, le=20), line 36
count_valid(count) == count >= 1 /\ count <= 20

\* the value of an expression, evaluated once
Let(x) == {x}

\* lines 242-268; fail_at: which of the driver calls the request makes raises
\* (0: none), the find_one of line 247 first, then the inserts of line 264
generate_flashcards ==
    \E doc_id \in BodyIds, text \in {None} \cup {Some(t) : t \in ExplainBodies},
       count \in FlashCounts, tag \in Tags :
        LET lookup    == ~TruthyText(text) /\ IsSet(doc_id)
            asked     == count_valid(count) /\ lookup /\ db # "None"
            d         == IF asked THEN find_one(regulationdoc, doc_id[1]) ELSE None
            base_text == IF lookup /\ d # None THEN Some(d[1].text) ELSE text
            generates == /\ count_valid(count)
                         /\ ~(lookup /\ d = None)
                         /\ TruthyText(base_text)
        IN  \E cards \in Let(IF generates
                             THEN generate_flashcards_from_text(base_text[1], count, tag)
                             ELSE <<>>) :
            \E fail_at \in 0..((IF asked THEN 1 ELSE 0)
                                + (IF ensure_db_raises THEN 0 ELSE Len(cards))) :
            \E done \in Let(persist_cards(cards, doc_id, flashcard, next_oid,
                                          IF asked THEN 2 ELSE 1, fail_at)) :
                /\ req = NoRequest
                /\ req' = [op |-> "generate_flashcards", doc_id |-> doc_id, text |-> text,
                           count |-> count, tag |-> tag, fail_at |-> fail_at]
                /\ IF ~count_valid(count)
                   THEN resp' = Unprocessable /\ UNCHANGED <<flashcard, next_oid>>
                   ELSE IF asked /\ fail_at = 1
                   THEN /\ resp' = Resp(400, "Invalid id", <<>>)
                        /\ UNCHANGED <<flashcard, next_oid>>
                   ELSE IF lookup /\ d = None
                   THEN /\ resp' = Resp(404, "Document not found", <<>>)
                        /\ UNCHANGED <<flashcard, next_oid>>
                   ELSE IF ~TruthyText(base_text)
                   THEN /\ resp' = Resp(400, "Provide text or doc_id", <<>>)
                        /\ UNCHANGED <<flashcard, next_oid>>
                   ELSE /\ next_oid + Len(cards) <= MaxInserts + 1
                        /\ flashcard' = done.coll
                        /\ next_oid' = next_oid + (Len(done.coll) - Len(flashcard))
                        /\ resp' = IF done.raised THEN InternalError
                                   ELSE Resp(200, "", done.out)
                /\ UNCHANGED <<db, pdf_extract_text, regulationdoc, inspiration>>

\* lines 270-284
list_flashcards ==
    \E limit \in {0, 1, 50}, tag \in Tags, driver_ok \in DriverOutcomes(~ensure_db_raises) :
        /\ req = NoRequest
        /\ req' = [op |-> "list_flashcards", limit |-> limit, tag |-> tag,
                   driver_ok |-> driver_ok]
        /\ resp' =
            IF ensure_db_raises \/ ~driver_ok THEN InternalError
            ELSE LET docs == get_documents(flashcard,
                                           IF TruthyTag(tag) THEN tag ELSE None, limit)
                 IN  Resp(200, "",
                          [i \in 1..Len(docs) |->
                              [id       |-> str_of_id(docs[i]._id),
                               question |-> docs[i].question,
                               answer   |-> docs[i].answer,
                               tag      |-> docs[i].tag]])
        /\ UNCHANGED <<db, pdf_extract_text, store, next_oid>>

\* lines 288-299: Inspiration(...) is validated, car and summary must be str
inspiration_lookup ==
    \E query \in Queries \cup {Missing}, world \in WikiWorlds :
    \E driver_ok \in DriverOutcomes(/\ query # Missing
                                    /\ wiki_search_extract(query, world).title.json = "string"
                                    /\ wiki_search_extract(query, world).extract.json = "string"
                                    /\ ~ensure_db_raises) :
        /\ next_oid <= MaxInserts
        /\ req = NoRequest
        /\ req' = [op |-> "inspiration_lookup", query |-> query, world |-> world,
                   driver_ok |-> driver_ok]
        /\ LET wiki       == wiki_search_extract(query, world)
               typed      == wiki.title.json = "string" /\ wiki.extract.json = "string"
               highlights == analyze_aero(wiki.extract.v)
               insp       == [query |-> query, car |-> wiki.title.v,
                              summary |-> wiki.extract.v, aero_highlights |-> highlights]
               created    == create_document(inspiration, insp, next_oid, driver_ok)
           IN  IF query = Missing
               THEN resp' = Unprocessable /\ UNCHANGED <<inspiration, next_oid>>
               ELSE IF ~typed \/ created.raised
               THEN resp' = InternalError /\ UNCHANGED <<inspiration, next_oid>>
               ELSE /\ inspiration' = created.coll
                    /\ next_oid' = next_oid + 1
                    /\ resp' = Resp(200, "", [id              |-> created.id,
                                              car             |-> insp.car,
                                              summary         |-> insp.summary,
                                              aero_highlights |-> insp.aero_highlights])
        /\ UNCHANGED <<db, pdf_extract_text, regulationdoc, flashcard>>

-----------------------------------------------------------------------------
(* The service: any request, in any order. *)

\* the response is sent, and the worker takes the next request
respond ==
    /\ req # NoRequest
    /\ req' = NoRequest
    /\ resp' = NoResponse
    /\ UNCHANGED <<db, pdf_extract_text, store, next_oid>>

Init ==
    /\ db \in {"None", "Database"}
    /\ pdf_extract_text \in BOOLEAN
    /\ regulationdoc = <<>>
    /\ flashcard = <<>>
    /\ inspiration = <<>>
    /\ next_oid = 1
    /\ req = NoRequest
    /\ resp = NoResponse

Next ==
    \/ read_root
    \/ hello
    \/ test_database
    \/ add_regulation
    \/ list_regulations
    \/ get_regulation
    \/ explain_text
    \/ generate_flashcards
    \/ list_flashcards
    \/ inspiration_lookup
    \/ respond

Spec == Init /\ [][Next]_vars

-----------------------------------------------------------------------------
(* The text heuristics on their own: one call, on a text put together from  *)
(* chunks that hold the keywords, their parts and their near misses.        *)

InitPure ==
    /\ db = "Database"
    /\ pdf_extract_text = TRUE
    /\ regulationdoc = <<>>
    /\ flashcard = <<>>
    /\ inspiration = <<>>
    /\ next_oid = 1
    /\ req = NoRequest
    /\ resp = NoResponse

\* the texts of at most n chunks of S
TextsOf(S, n) == {Concat(cs) : cs \in SeqsUpTo(S, n)}

AeroChunks == {
    <<"g","r","o","u","n","d"," ","e","f","f","e","c","t">>, <<"v","e","n","t","u","r","i">>, <<"f","l","o","o","r">>, <<"w","i","n","g">>, <<"g","u","r","n","e","y">>, <<"d","r","a","g">>,
    <<"s","l","i","p","p","e","r","y">>, <<"c","d"," ">>, <<"d","i","f","f","u","s","e","r">>, <<"b","e","a","m"," ","w","i","n","g">>, <<"R","e","a","r"," ","W","i","n","g">>,
    <<"w","i","n">>, <<"g">>, <<"c","d">>, <<" ">>, <<"c","a","r">> }

AeroTexts == TextsOf(AeroChunks, MaxChunks)

call_analyze_aero ==
    \E text \in AeroTexts :
        /\ req = NoRequest
        /\ req' = [op |-> "analyze_aero", text |-> text]
        /\ resp' = Resp(200, "", analyze_aero(text))
        /\ UNCHANGED <<db, pdf_extract_text, store, next_oid>>

NextAero ==
    \/ call_analyze_aero
    \/ respond

SpecAero == InitPure /\ [][NextAero]_vars

ExplainChunks == {
    <<"m","i","n","i","m","u","m">>, <<"m","a","x","i","m","u","m">>, <<"m","u","s","t">>, <<"s","h","a","l","l">>, <<"n","o","t">>, <<"p","r","o","h","i","b","i","t","e","d">>,
    <<"r","e","q","u","i","r","e","d">>, <<"M","U","S","T">>, <<"S","h","a","l","l">>, <<"n","o">>, <<"t"," ">>, <<" ">>, <<"5"," ","m","m">>, <<"w","i","d","t","h">>, <<"c","a","r">> }

ExplainTexts == TextsOf(ExplainChunks, MaxChunks)

call_simple_explain ==
    \E text \in ExplainTexts :
        /\ req = NoRequest
        /\ req' = [op |-> "simple_explain", text |-> text]
        /\ resp' = Resp(200, "", simple_explain(text))
        /\ UNCHANGED <<db, pdf_extract_text, store, next_oid>>

NextExplain ==
    \/ call_simple_explain
    \/ respond

SpecExplain == InitPure /\ [][NextExplain]_vars

Sentence1 == <<"T","h","e"," ","c","a","r"," ","m","u","s","t"," ","b","e"," ","s","a","f","e",".">>
Sentence2 == <<"W","i","n","g","s"," ","s","h","a","l","l"," ","n","o","t"," ","f","l","e","x"," ","a","n","d"," ","m","u","s","t"," ","h","o","l","d",".">>
Sentence3 == <<"M","u","s","t","a","r","d"," ","i","s"," ","n","o","t"," ","a","l","l","o","w","e","d"," ","h","e","r","e",".">>
Sentence4 == <<"T","o","o"," ","s","h","o","r","t",".">>
Sentence5 == <<"B","o","d","y"," ","w","i","d","t","h"," ","i","s"," ","6","5"," ","m","m",".">>
Sentence6 == <<"T","h","e"," ","s","u","r","v","i","v","a","l"," ","c","e","l","l"," ","i","s"," ","t","h","e"," ","c","o","n","t","i","n","u","o","u","s"," ","c","l","o","s","e","d"," ","s","t","r","u","c","t","u","r","e"," ","t","h","a","t"," ","h","o","l","d","s"," ","t","h","e"," ","f","u","e","l"," ","t","a","n","k"," ","a","n","d"," ","t","h","e"," ","c","o","c","k","p","i","t",","," ","a","n","d"," ","i","t"," ","h","a","s"," ","t","o"," ","p","a","s","s"," ","e","v","e","r","y"," ","c","r","a","s","h"," ","t","e","s","t",".">>
Sentence7 == <<"Y","o","u"," ","S","H","O","U","L","D"," ","c","h","e","c","k"," ","t","h","e"," ","f","l","o","o","r","!">>
Sentence8 == <<"T","h","e"," ","s","h","o","u","l","d","e","r"," ","h","a","r","n","e","s","s"," ","m","u","s","t"," ","f","i","t",","," ","s","h","o","u","l","d"," ","i","t","?">>

SentencePool == {Sentence1, Sentence2, Sentence3, Sentence4, Sentence5,
                 Sentence6, Sentence7, Sentence8}

RECURSIVE Join(_, _)
\* sep.join(parts)
Join(parts, sep) ==
    IF Len(parts) <= 1 THEN Concat(parts)
    ELSE Head(parts) \o sep \o Join(Tail(parts), sep)

\* five and six sentences of more than 20 characters, shorter ones among them
Document5 ==
    Join(<<Sentence1, Sentence4, Sentence2>>, <<"\n","\n">>)
    \o <<" "," ">> \o Join(<<Sentence5, Sentence3, Sentence7, Sentence8>>, <<" ">>)
Document6 == <<" ">> \o Document5 \o <<" ">> \o Sentence6 \o <<" ","\n">>

FlashTexts ==
    {Join(ss, sep) : ss \in SeqsUpTo(SentencePool, MaxSentences), sep \in {<<" ">>, <<>>}}
    \cup {Document5, Document6}

call_generate_flashcards_from_text ==
    \E text \in FlashTexts, n \in {1, 2, 5, 20}, tag \in Tags :
        /\ req = NoRequest
        /\ req' = [op |-> "generate_flashcards_from_text", text |-> text, n |-> n,
                   tag |-> tag]
        /\ resp' = Resp(200, "", generate_flashcards_from_text(text, n, tag))
        /\ UNCHANGED <<db, pdf_extract_text, store, next_oid>>

NextFlash ==
    \/ call_generate_flashcards_from_text
    \/ respond

SpecFlash == InitPure /\ [][NextFlash]_vars

-----------------------------------------------------------------------------
(* The properties. *)

IsPrefixOf(a, b) == Len(a) <= Len(b) /\ SubSeq(b, 1, Len(a)) = a

\* the request in req is a GET of one regulation that the driver served
GetServed == req.op = "get_regulation" /\ req.driver_ok

\* C1: a document that POST /api/regulations stored, and whose id it returned
\* as str(_id), is given back by GET /api/regulations/{id} under that id: 200,
\* with the stored title, source_url and text.
C1_RoundTrip ==
    GetServed =>
        \A i \in 1..Len(regulationdoc) :
            str_of_id(regulationdoc[i]._id) = req.doc_id =>
                /\ resp.status = 200
                /\ resp.body = [id         |-> req.doc_id,
                                title      |-> regulationdoc[i].title,
                                source_url |-> regulationdoc[i].source_url,
                                text       |-> regulationdoc[i].text]

\* the search or the summary call of the lookup failed
LookupFails(world) ==
    world.search = "error" \/ (world.search = "hit" /\ world.summary = "error")

\* the summary, when there is one, gives strings or nothing for title and extract
WellTyped(world) ==
    (world.search = "hit" /\ world.summary = "json") =>
        world.title # JsonNull /\ world.extract # JsonNull

\* a step that handles an inspiration request with a query
InspirationStep ==
    req = NoRequest /\ req'.op = "inspiration_lookup" /\ req'.query # Missing

\* the step answers 200 with {id, car, summary, aero_highlights} and appends
\* one Inspiration record, which holds the values of the response
InspirationStored ==
    /\ resp'.status = 200
    /\ DOMAIN resp'.body = {"id", "car", "summary", "aero_highlights"}
    /\ Len(inspiration') = Len(inspiration) + 1
    /\ IsPrefixOf(inspiration, inspiration')
    /\ LET rec == inspiration'[Len(inspiration')]
       IN  /\ str_of_id(rec._id) = resp'.body.id
           /\ rec.query = req'.query
           /\ rec.car = resp'.body.car
           /\ rec.summary = resp'.body.summary
           /\ rec.aero_highlights = resp'.body.aero_highlights

\* on a failed lookup the summary is "Lookup failed." and car is the query
SentinelOnFailure ==
    LookupFails(req'.world) =>
        resp'.body.summary = LookupFailed /\ resp'.body.car = req'.query

C3_NotFoundOrInvalidId ==
    GetServed =>
        /\ req.doc_id = MalformedId =>
            resp.status = 400 /\ resp.detail = "Invalid id"
        /\ (/\ req.doc_id # MalformedId
            /\ \A i \in 1..Len(regulationdoc) :
                    str_of_id(regulationdoc[i]._id) # req.doc_id) =>
            resp.status = 404 /\ resp.detail = "Document not found"

FlashCall == req.op = "generate_flashcards_from_text"

\* the segments of the text that are longer than 20 characters, in their order
LongSegments(text) == SelectSeq(re_split(text), LAMBDA s : Len(s) > 20)

\* C5: generate_flashcards_from_text(text, n, tag) gives min(n, k) cards, k
\* the number of segments longer than 20 characters among the first 200 of
\* them; the answer of card i is segment i as it is, every card has the tag;
\* n = 5 and five or more such segments give five cards.
C5_CardsAreTheFirstSegments ==
    FlashCall =>
        LET segs  == LongSegments(req.text)
            k     == Min(Len(segs), 200)
            cards == resp.body
        IN  /\ Len(cards) = Min(req.n, k)
            /\ \A i \in 1..Len(cards) :
                    cards[i].answer = segs[i] /\ cards[i].tag = req.tag
            /\ (req.n = 5 /\ Len(segs) >= 5) => Len(cards) = 5

\* five cards out of a text with more than five such segments, shorter
\* segments among them
C5_Witness ==
    /\ FlashCall
    /\ req.n = 5
    /\ Len(resp.body) = 5
    /\ Len(LongSegments(req.text)) > 5
    /\ Len(re_split(req.text)) > Len(LongSegments(req.text))

\* the request in req is a flashcard request that must be refused: count
\* outside 1..20, or neither text nor doc_id
BadFlashcardRequest(r) ==
    /\ r.op = "generate_flashcards"
    /\ \/ r.count < 1
       \/ r.count > 20
       \/ r.text = None /\ r.doc_id = None

\* C6: a flashcard request with count outside 1..20, or with neither text nor
\* doc_id, is refused as bad input (422 by the validation of the body, 400
\* "Provide text or doc_id" by the handler), no card is generated and the
\* flashcard collection stays as it was.
C6_BadInputRejected ==
    [][(req = NoRequest /\ BadFlashcardRequest(req')) =>
        /\ \/ resp'.status = 422 /\ (req'.count < 1 \/ req'.count > 20)
           \/ /\ resp'.status = 400
              /\ resp'.detail = "Provide text or doc_id"
              /\ req'.count \in 1..20
        /\ resp'.body = <<>>
        /\ flashcard' = flashcard]_vars

\* count = 21 with a text that has sentences was refused, cards of an earlier
\* request being stored
C6_Witness ==
    /\ req.op = "generate_flashcards"
    /\ req.count = 21
    /\ req.text = Some(RegText1)
    /\ resp.status = 422
    /\ flashcard # <<>>

\* the request in req is a call of simple_explain
ExplainCall == req.op = "simple_explain"

\* the compliance keywords, in the order of the list, that the text contains
\* without regard to case
CompliancePresent(text) ==
    {i \in 1..Len(ComplianceKeywords) : Contains(ComplianceKeywords[i], str_lower(text))}

IsComplianceBullet(b) ==
    b.fmt = "Identifies a compliance rule: contains the word '{kw}'."

\* C7: the bullets of simple_explain hold one compliance-rule bullet when the
\* text contains one of minimum, maximum, must, shall, not, prohibited,
\* required in any case, and none otherwise; the bullet names the first of
\* them, in this order, that the text contains, and is the first bullet.
C7_OneComplianceBullet ==
    ExplainCall =>
        LET present == CompliancePresent(req.text)
            bullets == resp.body.bullets
            rules   == {j \in 1..Len(bullets) : IsComplianceBullet(bullets[j])}
        IN  IF present = {} THEN rules = {}
            ELSE /\ rules = {1}
                 /\ bullets[1].arg =
                        ComplianceKeywords[CHOOSE i \in present : \A j \in present : i <= j]

\* a text with "minimum" and "must" got the bullet for "minimum", and other
\* bullets after it
C7_Witness ==
    /\ ExplainCall
    /\ Contains(<<"m","u","s","t">>, str_lower(req.text))
    /\ Contains(<<"m","i","n","i","m","u","m">>, str_lower(req.text))
    /\ resp.body.bullets[1] = ComplianceBullet(<<"m","i","n","i","m","u","m">>)
    /\ Len(resp.body.bullets) >= 3

\* the request in req is a call of analyze_aero
AeroCall == req.op = "analyze_aero"

\* the clusters one of whose keywords the text contains, without regard to case
ClustersPresent(text) ==
    {k \in 1..Len(AeroClusters) :
        \E i \in 1..Len(AeroClusters[k]) : Contains(AeroClusters[k][i], str_lower(text))}

\* C8: analyze_aero gives one to four strings: the fallback alone when no
\* cluster matches, and otherwise the observations of the clusters that match,
\* each once, in the order floor/venturi, wing, low drag, diffuser, without
\* the fallback.
C8_ObservationsOfMatchingClusters ==
    AeroCall =>
        LET present == ClustersPresent(req.text)
            out     == resp.body
        IN  /\ Len(out) \in 1..4
            /\ (out = <<AeroFallback>>) <=> (present = {})
            /\ present # {} =>
                /\ Len(out) = Cardinality(present)
                /\ \A k \in present : \E j \in 1..Len(out) : out[j] = AeroObservations[k]
                /\ \A j \in 1..Len(out) : \E k \in present : out[j] = AeroObservations[k]
                /\ \A i, j \in 1..Len(out) : \A k, l \in present :
                        (i < j /\ out[i] = AeroObservations[k] /\ out[j] = AeroObservations[l])
                            => k < l

\* a text that matches two clusters got their two observations
C8_Witness ==
    /\ AeroCall
    /\ Cardinality(ClustersPresent(req.text)) = 2
    /\ Len(resp.body) = 2

\* one of must, shall, should starts at i, in any case
ModalAt(s, i) ==
    \E k \in 1..Len(ModalWords) :
        /\ i + Len(ModalWords[k]) - 1 <= Len(s)
        /\ str_lower(SubSeq(s, i, i + Len(ModalWords[k]) - 1)) = ModalWords[k]

\* ... and the character after it is no letter, digit or underscore
ModalWordAt(s, i) ==
    \E k \in 1..Len(ModalWords) :
        LET e == i + Len(ModalWords[k]) - 1
        IN  /\ e <= Len(s)
            /\ str_lower(SubSeq(s, i, e)) = ModalWords[k]
            /\ e = Len(s) \/ ~IsWordChar(s[e + 1])

Fallback(s) == QuestionPrefix \o Prefix(s, 120)

\* C9 as stated: when the sentence contains must, shall or should, the
\* question is the sentence with "What " put before the first occurrence and
\* nothing else changed; otherwise it is the fixed prefix and the first 120
\* characters of the sentence.
C9_FirstOccurrenceOnly ==
    FlashCall =>
        \A c \in 1..Len(resp.body) :
            LET s   == resp.body[c].answer
                q   == resp.body[c].question
                occ == {i \in 1..Len(s) : ModalAt(s, i)}
            IN  IF occ = {} THEN q = Fallback(s)
                ELSE LET m == CHOOSE i \in occ : \A j \in occ : i <= j
                     IN  q = SubSeq(s, 1, m - 1) \o WhatPrefix \o SubSeq(s, m, Len(s))

\* C9, amended: "What " is put before every occurrence of must, shall or
\* should that no letter, digit or underscore follows, and nothing else is
\* changed; a sentence without such an occurrence gets the fixed prefix and
\* its first 120 characters.
C9_EveryWholeWordOccurrence ==
    FlashCall =>
        \A c \in 1..Len(resp.body) :
            LET s      == resp.body[c].answer
                q      == resp.body[c].question
                occ    == {i \in 1..Len(s) : ModalWordAt(s, i)}
                upto(i) == Cardinality({m \in occ : m <= i})
            IN  IF occ = {} THEN q = Fallback(s)
                ELSE /\ Len(q) = Len(s) + Len(WhatPrefix) * Cardinality(occ)
                     /\ \A i \in 1..Len(s) : q[i + Len(WhatPrefix) * upto(i)] = s[i]
                     /\ \A m \in occ :
                            SubSeq(q, m + Len(WhatPrefix) * (upto(m) - 1),
                                   m + Len(WhatPrefix) * upto(m) - 1) = WhatPrefix

\* a card of a sentence with two such occurrences, and a card of a sentence
\* that has "must" only inside a longer word
C9_Witness ==
    /\ FlashCall
    /\ \E c \in 1..Len(resp.body) :
            Cardinality({i \in 1..Len(resp.body[c].answer) :
                            ModalWordAt(resp.body[c].answer, i)}) >= 2
    /\ \E c \in 1..Len(resp.body) :
            /\ \E i \in 1..Len(resp.body[c].answer) : ModalAt(resp.body[c].answer, i)
            /\ resp.body[c].question = Fallback(resp.body[c].answer)

GetRoutes == {"read_root", "hello", "test_database", "list_regulations",
              "get_regulation", "list_flashcards"}

====
